---------------------------- MODULE Spec2Model ----------------------------
(***************************************************************************)
(* The live variant of keytap3 (src/keytap3-app.cpp): the four-state       *)
(* machine Loading / Idle / Recording / Decoding driven by the control     *)
(* loop (mainLoop, setData, getData), the single background worker thread  *)
(* (state.worker) and the audio callback installed by StateRecording::init.*)
(*                                                                         *)
(* Threads.  The control thread runs setData, getData and mainLoop one at  *)
(* a time; each is one action, except that mainLoop blocks in              *)
(* worker.join() of the Recording case (ctlPc = "join").  The worker and   *)
(* the audio callback advance one step at a time (worker.pc, cbPc).  An    *)
(* access to shared data that takes a lock or lasts over a copy is an      *)
(* interval of two steps (begin, end); an access by the control thread     *)
(* that falls inside another thread's interval is a data race, recorded    *)
(* in that thread's position ("...Raced"), and its outcome is then chosen  *)
(* among the outcomes such a race can produce.                             *)
(*                                                                         *)
(* The orchestrator.  The pipeline run by main of the batch driver         *)
(* (src/keytap3.cpp) and by the Decoding worker of the live variant is     *)
(* modelled stage by stage in OrchSpec; WidthSpec is its parameter set-up  *)
(* for any number of keypresses.                                           *)
(***************************************************************************)
EXTENDS Integers, Sequences, FiniteSets, TLC

\* ------------------------------------------------------------------ bounds

\* longest float waveform the capture collaborator delivers in the model
MaxSamples == 1
\* largest nKeys argument of a `start` command
MaxKeyArg == 1
\* seconds of wall-clock time that pass in one Tick
TickSec == 120

\* --------------------------------------------------------------- constants

\* the recording cap of updateWorker: tElapsed > 2*60.0f
RecordingLimit == 120
\* int16 full scale, the value convert() maps the loudest sample to
I16Max == 32767
\* 60.0f*(nKeysHave/tElapsed) with tElapsed = 0: +inf
CpmInf == 2147483647

\* every float sample of the model is the click of a key (1); silence is a
\* batch without frames
Samples == {1}
KeyArgs == 0..MaxKeyArg
\* `start` without a parsable number keeps nKeysToCapture
NoArg == -1

RECURSIVE SeqsOfLen(_)
SeqsOfLen(n) ==
    IF n = 0 THEN {<<>>}
    ELSE {Append(s, x) : s \in SeqsOfLen(n - 1), x \in Samples}

SeqsUpTo(n) == UNION {SeqsOfLen(k) : k \in 0..n}

IsPrefix(s, t) == Len(s) <= Len(t) /\ SubSeq(t, 1, Len(s)) = s

VARIABLES
    state,           \* State::state
    dataOutput,      \* State::dataOutput, <<>> is the empty string
    worker,          \* State::worker: [kind, pc]; kind "none" is not joinable
    workDone,        \* State::workDone
    freqMap6,        \* StateDecoding::freqMap6 holds the loaded table
    waveformInput,   \* StateDecoding::waveformInput
    nKeysToCapture,  \* StateRecording::nKeysToCapture
    nKeysHave,       \* StateRecording::nKeysHave
    isStarted,       \* StateRecording::isStarted
    doRecord,        \* StateRecording::doRecord
    doneRecording,   \* StateRecording::doneRecording
    waveformF,       \* StateRecording::waveformF
    waveformFWork,   \* StateRecording::waveformFWork
    waveformI16,     \* StateRecording::waveformI16
    keyPresses,      \* StateRecording::keyPresses, its size
    mutex,           \* StateRecording::mutex: "free" or the holder
    installed,       \* audioLogger: the callback is installed
    pending,         \* audioLogger: a record() request is outstanding
    cbPc,            \* position of the audio callback
    ctlPc,           \* position of the control thread
    wElapsed,        \* seconds since the recording worker's tStart
    tElapsed,        \* the recording worker's local tElapsed
    nUnjoined,       \* history: threads started and not yet joined
    lastCmd,         \* history: the last command setData received
    exitCode,        \* the value main returned, once the process has ended
    driver,          \* the orchestrator that runs: "batch", "app" or "none"
    stage,           \* position of the orchestrator
    ran,             \* history: the stages the orchestrator has run
    failed,          \* history: the stage that returned false, or "none"
    nDetected,       \* keyPresses.size() of the orchestrator, n
    maxClusters,     \* params.maxClusters
    nHypothesesToKeep, \* params.nHypothesesToKeep
    processor,       \* the maxClusters the processor was last initialised with
    nIter,           \* nIter of the clustering loop
    clusterings,     \* the pooled clusterings
    hint,            \* params.hint
    idx,             \* i of the beam search loop, from 1
    calls,           \* history: the calls of getClusterings
    printed,         \* history: the result lines printed
    searches         \* history: the calls of beamSearch and refineNearby

vars == <<state, dataOutput, worker, workDone, freqMap6, waveformInput,
          nKeysToCapture, nKeysHave, isStarted, doRecord, doneRecording,
          waveformF, waveformFWork, waveformI16, keyPresses, mutex,
          installed, pending, cbPc, ctlPc, wElapsed, tElapsed,
          nUnjoined, lastCmd, exitCode, driver, stage, ran, failed, nDetected,
          maxClusters, nHypothesesToKeep, processor, nIter, clusterings, hint,
          idx, calls, printed, searches>>

liveVars == <<state, dataOutput, worker, workDone, freqMap6, waveformInput,
              nKeysToCapture, nKeysHave, isStarted, doRecord, doneRecording,
              waveformF, waveformFWork, waveformI16, keyPresses, mutex,
              installed, pending, cbPc, ctlPc, wElapsed, tElapsed,
              nUnjoined, lastCmd>>
orchVars == <<driver, stage, ran, failed, nDetected, maxClusters,
              nHypothesesToKeep, processor, nIter, clusterings, hint, idx,
              calls, printed, searches>>

recVars == <<nKeysToCapture, nKeysHave, isStarted, doRecord, doneRecording,
             waveformF, waveformFWork, waveformI16, keyPresses>>
loggerVars == <<installed, pending>>
decVars == <<freqMap6, waveformInput>>
timeVars == <<wElapsed, tElapsed>>

NoWorker == [kind |-> "none", pc |-> "none"]

\* the live application after construction (State, StateRecording)
LiveInit ==
    /\ state = "Loading"
    /\ dataOutput = <<>>
    /\ worker = NoWorker
    /\ workDone = FALSE
    /\ freqMap6 = FALSE
    /\ waveformInput = <<>>
    /\ nKeysToCapture \in KeyArgs
    /\ nKeysHave = 0
    /\ isStarted = FALSE
    /\ doRecord = FALSE
    /\ doneRecording = FALSE
    /\ waveformF = <<>>
    /\ waveformFWork = <<>>
    /\ waveformI16 = <<>>
    /\ keyPresses = 0
    /\ mutex = "free"
    /\ installed = FALSE
    /\ pending = FALSE
    /\ cbPc = "idle"
    /\ ctlPc = "ready"
    /\ wElapsed = 0
    /\ tElapsed = 0
    /\ nUnjoined = 0
    /\ lastCmd = "none"

\* no orchestrator runs
OrchIdle ==
    /\ driver = "none"
    /\ stage = "none"
    /\ ran = <<>>
    /\ failed = "none"
    /\ nDetected = 0
    /\ maxClusters = 0
    /\ nHypothesesToKeep = 0
    /\ processor = 0
    /\ nIter = 0
    /\ clusterings = <<>>
    /\ hint = <<>>
    /\ idx = 0
    /\ calls = <<>>
    /\ printed = <<>>
    /\ searches = <<>>

\* keytap3-app when main enters its loop: init and doInit have returned true
Init ==
    /\ LiveInit
    /\ exitCode = 0
    /\ OrchIdle


\* ---------------------------------------------------- external collaborators

\* ::filter + convert (updateWorker): the float snapshot as int16, scaled by
\* its peak so that the loudest sample maps to full scale
Peak(w) == IF \E i \in 1..Len(w) : w[i] # 0 THEN 1 ELSE 0

ToI16(w) == [i \in 1..Len(w) |-> IF Peak(w) = 0 THEN 0 ELSE (w[i] * I16Max) \div Peak(w)]

\* findKeyPresses: the number of onsets found in an int16 waveform
RECURSIVE Detect(_)
Detect(w) ==
    IF w = <<>> THEN 0
    ELSE Detect(SubSeq(w, 1, Len(w) - 1)) + (IF w[Len(w)] = I16Max THEN 1 ELSE 0)

\* 60.0f*(nKeysHave/tElapsed)
Cpm(n, t) == IF t = 0 THEN (IF n = 0 THEN 0 ELSE CpmInf) ELSE (60 * n) \div t

RecordingMsg(n, t) == <<"recording", n, Cpm(n, t)>>

\* ------------------------------------------------------------ data races

\* the worker is inside an access to dataOutput
WorkerInD == worker.pc \in {"pubWrite", "pubWriteRaced", "doneWrite", "doneWriteRaced"}
\* the worker is inside its copy of waveformF
WorkerInW == worker.pc \in {"copy", "copyRaced"}
\* the callback is inside its append to waveformF
CallbackInW == cbPc \in {"append", "appendRaced"}

\* the worker's position after the control thread touched dataOutput
WorkerAfterD(w) ==
    IF w.pc = "pubWrite" THEN [w EXCEPT !.pc = "pubWriteRaced"]
    ELSE IF w.pc = "doneWrite" THEN [w EXCEPT !.pc = "doneWriteRaced"]
    ELSE w

\* the worker's position after the control thread touched waveformF
WorkerAfterW(w) == IF w.pc = "copy" THEN [w EXCEPT !.pc = "copyRaced"] ELSE w

\* the callback's position after the control thread touched waveformF
CallbackAfterW(pc) == IF pc = "append" THEN "appendRaced" ELSE pc

\* what a string holds after a write that raced with another access: the
\* value written, the value the other access left, or neither
RacedString(written, left) == {written, left, <<"?">>}

\* ------------------------------------------------------------ the worker

MutJoinable == FALSE

\* state.worker.joinable()
Joinable == worker.kind # "none"

\* state.worker = std::thread(...)
StartWorker(kind, pc) ==
    /\ worker' = [kind |-> kind, pc |-> pc]
    /\ nUnjoined' = nUnjoined + 1

\* state.worker.join() returns once the thread has ended
CanJoin == worker.pc = "exited"

JoinWorker ==
    /\ worker' = NoWorker
    /\ nUnjoined' = nUnjoined - 1


\* ------------------------------------------------------- the audio logger

\* audioLogger.record(1.0f, 0): request one batch of frames
LoggerRecord == installed

\* ---------------------------------------------------------------- setData

MutStartAccepted == TRUE

\* setData: if (state.state == State::Idle)
StartAccepted == state = "Idle"

\* StateRecording::init: if (isStarted && !doneRecording) return false
InitRefused == isStarted /\ ~doneRecording

\* StateRecording::init, called by an accepted `start`.  ok is the result of
\* audioLogger.install.  The clears are made without the mutex.
RecordingInit(ok) ==
    IF InitRefused
    THEN UNCHANGED <<nKeysHave, isStarted, doRecord, doneRecording, waveformF,
                     waveformFWork, waveformI16, keyPresses, installed, pending,
                     worker, cbPc>>
    ELSE /\ nKeysHave' = 0
         /\ isStarted' = TRUE
         /\ doRecord' = TRUE
         /\ doneRecording' = FALSE
         \* waveformF.clear() inside an append of the callback may be lost
         /\ waveformF' \in (IF CallbackInW THEN {<<>>, waveformF} ELSE {<<>>})
         /\ waveformI16' = <<>>
         /\ keyPresses' = 0
         /\ worker' = WorkerAfterW(worker)
         /\ cbPc' = CallbackAfterW(cbPc)
         /\ installed' = ok
         /\ UNCHANGED <<waveformFWork, pending>>

\* setData("start [nKeys]")
SetDataStart(arg) ==
    /\ ctlPc = "ready"
    /\ lastCmd' = "start"
    /\ UNCHANGED <<exitCode, orchVars>>
    /\ IF StartAccepted
       THEN /\ nKeysToCapture' = (IF arg = NoArg THEN nKeysToCapture ELSE arg)
            /\ state' = "Recording"
            /\ \E ok \in BOOLEAN : RecordingInit(ok)
            /\ UNCHANGED <<dataOutput, workDone, decVars, mutex, ctlPc, timeVars, nUnjoined>>
       ELSE UNCHANGED <<state, dataOutput, worker, workDone, decVars, recVars,
                        mutex, loggerVars, cbPc, ctlPc, timeVars,
                        nUnjoined>>

\* setData("stop")
SetDataStop ==
    /\ ctlPc = "ready"
    /\ lastCmd' = "stop"
    /\ UNCHANGED <<exitCode, orchVars>>
    /\ state' = "Idle"
    /\ UNCHANGED <<dataOutput, worker, workDone, decVars, recVars, mutex,
                   loggerVars, cbPc, ctlPc, timeVars, nUnjoined>>

\* setData of any other command
SetDataUnknown ==
    /\ ctlPc = "ready"
    /\ lastCmd' = "unknown"
    /\ UNCHANGED <<exitCode, orchVars>>
    /\ UNCHANGED <<state, dataOutput, worker, workDone, decVars, recVars, mutex,
                   loggerVars, cbPc, ctlPc, timeVars, nUnjoined>>

\* ---------------------------------------------------------------- getData

\* getData: read and clear dataOutput, without the mutex
GetData ==
    /\ ctlPc = "ready"
    /\ UNCHANGED <<lastCmd, exitCode, orchVars>>
    /\ dataOutput' = <<>>
    /\ worker' = WorkerAfterD(worker)
    /\ UNCHANGED <<state, workDone, decVars, recVars, mutex, loggerVars, cbPc,
                   ctlPc, timeVars, nUnjoined>>

\* --------------------------------------------------------------- mainLoop

MutLoadedNext == "Recording"

\* mainLoop, Loading: state.state = State::Idle
LoadedNext == "Idle"

\* mainLoop, case State::Loading, up to worker.join()
MainLoopLoading ==
    /\ ctlPc = "ready"
    /\ state = "Loading"
    /\ UNCHANGED <<lastCmd, exitCode, orchVars>>
    /\ IF Joinable
       THEN UNCHANGED <<worker, nUnjoined, dataOutput>>
       ELSE /\ dataOutput' = <<"loading">>
            /\ StartWorker("load", "run")
    /\ ctlPc' = (IF workDone THEN "joinLoading" ELSE "ready")
    /\ UNCHANGED <<state, workDone, decVars, recVars, mutex, loggerVars, cbPc,
                   timeVars>>

\* mainLoop, case State::Loading, from the return of worker.join()
MainLoopLoadingJoin ==
    /\ ctlPc = "joinLoading"
    /\ CanJoin
    /\ UNCHANGED <<lastCmd, exitCode, orchVars>>
    /\ JoinWorker
    /\ state' = LoadedNext
    /\ dataOutput' = <<"loaded">>
    /\ ctlPc' = "ready"
    /\ UNCHANGED <<workDone, decVars, recVars, mutex, loggerVars, cbPc,
                   timeVars>>

\* mainLoop, case State::Idle
MainLoopIdle ==
    /\ ctlPc = "ready"
    /\ state = "Idle"
    /\ UNCHANGED <<lastCmd, exitCode, orchVars>>
    /\ UNCHANGED <<state, dataOutput, worker, workDone, decVars, recVars, mutex,
                   loggerVars, cbPc, ctlPc, timeVars, nUnjoined>>


\* StateRecording::update
RecordingUpdate ==
    IF isStarted /\ doRecord
    THEN /\ doRecord' = FALSE
         /\ pending' = LoggerRecord
    ELSE UNCHANGED <<doRecord, pending>>

\* mainLoop, case State::Recording, up to worker.join(): update(), start the
\* worker, and on doneRecording audioLogger.terminate()
MainLoopRecording ==
    /\ ctlPc = "ready"
    /\ state = "Recording"
    /\ UNCHANGED <<lastCmd, exitCode, orchVars>>
    /\ IF Joinable
       THEN UNCHANGED <<worker, nUnjoined, wElapsed>>
       ELSE /\ StartWorker("rec", "check")
            /\ wElapsed' = 0
    /\ IF doneRecording
       THEN /\ doRecord' = (IF isStarted /\ doRecord THEN FALSE ELSE doRecord)
            /\ installed' = FALSE
            /\ pending' = FALSE
            /\ ctlPc' = "joinRecording"
       ELSE /\ RecordingUpdate
            /\ UNCHANGED <<installed, ctlPc>>
    /\ UNCHANGED <<state, dataOutput, workDone, decVars, nKeysToCapture,
                   nKeysHave, isStarted, doneRecording, waveformF, waveformFWork,
                   waveformI16, keyPresses, mutex, cbPc, tElapsed>>

\* what becomes of the control thread when mainLoop returns false: the loop of
\* the native main breaks and main returns 0; the wrapper of the web build
\* drops the value and the loop goes on
AfterLoopFalse == {"exited", "ready"}

\* mainLoop, case State::Recording, from the return of worker.join(): save the
\* float waveform and hand the int16 waveform to the decoder.  terminate() has
\* returned, so the callback is not running.  fout is fout.good().
MainLoopRecordingJoin(fout) ==
    /\ ctlPc = "joinRecording"
    /\ CanJoin
    /\ cbPc = "idle"
    /\ UNCHANGED <<lastCmd, exitCode, orchVars>>
    /\ JoinWorker
    /\ IF fout
       THEN /\ dataOutput' = <<"decoding">>
            /\ waveformInput' = waveformI16
            /\ state' = "Decoding"
            /\ ctlPc' = "ready"
       ELSE /\ ctlPc' \in AfterLoopFalse
            /\ UNCHANGED <<dataOutput, waveformInput, state>>
    /\ UNCHANGED <<workDone, freqMap6, recVars, mutex, loggerVars, cbPc,
                   timeVars>>

MutWorkDoneAtStart == workDone

\* mainLoop, Decoding: state.workDone = false before the worker is started
WorkDoneAtStart == FALSE

\* mainLoop, case State::Decoding, up to worker.join()
MainLoopDecoding ==
    /\ ctlPc = "ready"
    /\ state = "Decoding"
    /\ UNCHANGED <<lastCmd, exitCode, orchVars>>
    /\ IF Joinable
       THEN /\ UNCHANGED <<worker, nUnjoined, workDone>>
            /\ ctlPc' = (IF workDone THEN "joinDecoding" ELSE "ready")
       ELSE /\ workDone' = WorkDoneAtStart
            /\ StartWorker("dec", "detect")
            /\ UNCHANGED ctlPc
    /\ UNCHANGED <<state, dataOutput, decVars, recVars, mutex, loggerVars, cbPc,
                   timeVars>>

\* mainLoop, case State::Decoding, from the return of worker.join()
MainLoopDecodingJoin ==
    /\ ctlPc = "joinDecoding"
    /\ CanJoin
    /\ UNCHANGED <<lastCmd, exitCode, orchVars>>
    /\ JoinWorker
    /\ state' = "Idle"
    /\ ctlPc' = "ready"
    /\ UNCHANGED <<dataOutput, workDone, decVars, recVars, mutex, loggerVars,
                   cbPc, timeVars>>


\* ------------------------------------------------------ the Loading worker

\* the worker of the Loading case: Cipher::loadFreqMapBinary returns ok
LoadWorker(ok) ==
    /\ worker.kind = "load"
    /\ worker.pc = "run"
    /\ UNCHANGED <<lastCmd, exitCode, orchVars>>
    /\ worker' = [worker EXCEPT !.pc = "exited"]
    /\ freqMap6' = (freqMap6 \/ ok)
    /\ workDone' = (workDone \/ ok)
    /\ UNCHANGED <<state, dataOutput, waveformInput, recVars, mutex, loggerVars,
                   cbPc, ctlPc, timeVars, nUnjoined>>

\* ---------------------------------------------------- the Recording worker

\* the worker of the Recording case: while (doneRecording == false), tElapsed
RecCheck ==
    /\ worker.kind = "rec"
    /\ worker.pc = "check"
    /\ UNCHANGED <<lastCmd, exitCode, orchVars>>
    /\ IF doneRecording
       THEN \* the thread ends, and its tStart and tElapsed with it
            /\ worker' = [worker EXCEPT !.pc = "exited"]
            /\ tElapsed' = 0
            /\ wElapsed' = 0
       ELSE /\ worker' = [worker EXCEPT !.pc = "snap"]
            /\ tElapsed' = wElapsed
            /\ UNCHANGED wElapsed
    /\ UNCHANGED <<state, dataOutput, workDone, decVars, recVars, mutex,
                   loggerVars, cbPc, ctlPc, nUnjoined>>

\* updateWorker: lock the mutex and start the copy waveformFWork = waveformF
RecCopyBegin ==
    /\ worker.kind = "rec"
    /\ worker.pc = "snap"
    /\ mutex = "free"
    /\ UNCHANGED <<lastCmd, exitCode, orchVars>>
    /\ mutex' = "worker"
    /\ waveformFWork' = waveformF
    /\ worker' = [worker EXCEPT !.pc = "copy"]
    /\ UNCHANGED <<state, dataOutput, workDone, decVars, nKeysToCapture,
                   nKeysHave, isStarted, doRecord, doneRecording, waveformF,
                   waveformI16, keyPresses, loggerVars, cbPc, ctlPc, timeVars, nUnjoined>>

\* what a copy of the vector holds when a clear() ran inside it: the content
\* before or after the clear, or any content of at most the old size
RacedCopy(old, now) == SeqsUpTo(Len(old)) \cup {now}

MutAfterCopy == "worker"

\* updateWorker: the lock_guard of the copy ends with its block, before the
\* filter
AfterCopy == "free"

\* updateWorker: the copy is complete, unlock
RecCopyEnd ==
    /\ worker.kind = "rec"
    /\ worker.pc \in {"copy", "copyRaced"}
    /\ UNCHANGED <<lastCmd, exitCode, orchVars>>
    /\ mutex' = AfterCopy
    /\ waveformFWork' \in (IF worker.pc = "copyRaced"
                           THEN RacedCopy(waveformFWork, waveformF)
                           ELSE {waveformFWork})
    /\ worker' = [worker EXCEPT !.pc = "detect"]
    /\ UNCHANGED <<state, dataOutput, workDone, decVars, nKeysToCapture,
                   nKeysHave, isStarted, doRecord, doneRecording, waveformF,
                   waveformI16, keyPresses, loggerVars, cbPc, ctlPc, timeVars, nUnjoined>>

\* updateWorker: filter, convert, findKeyPresses
RecDetect ==
    /\ worker.kind = "rec"
    /\ worker.pc = "detect"
    /\ UNCHANGED <<lastCmd, exitCode, orchVars>>
    /\ waveformI16' = ToI16(waveformFWork)
    /\ keyPresses' = Detect(ToI16(waveformFWork))
    /\ worker' = [worker EXCEPT !.pc = "pub"]
    /\ UNCHANGED <<state, dataOutput, workDone, decVars, nKeysToCapture,
                   nKeysHave, isStarted, doRecord, doneRecording, waveformF,
                   waveformFWork, mutex, loggerVars, cbPc, ctlPc, timeVars, nUnjoined>>

\* updateWorker: if (nKeysHave < (int) keyPresses.size())
KeysRaised == nKeysHave < keyPresses

\* updateWorker: lock the mutex, raise nKeysHave and start writing dataOutput
RecPublishBegin ==
    /\ worker.kind = "rec"
    /\ worker.pc = "pub"
    /\ mutex = "free"
    /\ UNCHANGED <<lastCmd, exitCode, orchVars>>
    /\ mutex' = "worker"
    /\ IF KeysRaised
       THEN /\ nKeysHave' = keyPresses
            /\ worker' = [worker EXCEPT !.pc = "pubWrite"]
       ELSE /\ UNCHANGED nKeysHave
            /\ worker' = [worker EXCEPT !.pc = "pubNoWrite"]
    /\ UNCHANGED <<state, dataOutput, workDone, decVars, nKeysToCapture,
                   isStarted, doRecord, doneRecording, waveformF, waveformFWork,
                   waveformI16, keyPresses, loggerVars, cbPc, ctlPc, timeVars, nUnjoined>>

MutCapReached == tElapsed >= RecordingLimit

\* updateWorker: if (tElapsed > 2*60.0f)
CapReached == tElapsed > RecordingLimit

\* updateWorker: dataOutput is written, the recording limit is checked, unlock;
\* then the worker sleeps and loops
RecPublishEnd ==
    /\ worker.kind = "rec"
    /\ worker.pc \in {"pubWrite", "pubWriteRaced", "pubNoWrite"}
    /\ UNCHANGED <<lastCmd, exitCode, orchVars>>
    /\ dataOutput' \in
         (CASE worker.pc = "pubWrite" -> {RecordingMsg(nKeysHave, tElapsed)}
            [] worker.pc = "pubWriteRaced" ->
                 RacedString(RecordingMsg(nKeysHave, tElapsed), dataOutput)
            [] OTHER -> {dataOutput})
    /\ doneRecording' = (doneRecording \/ CapReached)
    /\ mutex' = "free"
    /\ worker' = [worker EXCEPT !.pc = "check"]
    /\ UNCHANGED <<state, workDone, decVars, nKeysToCapture, nKeysHave,
                   isStarted, doRecord, waveformF, waveformFWork, waveformI16,
                   keyPresses, loggerVars, cbPc, ctlPc, timeVars,
                   nUnjoined>>

\* wall-clock time passes while the recording worker runs; beyond the limit
\* more time changes nothing the worker can see
Tick ==
    /\ worker.kind = "rec"
    /\ worker.pc # "exited"
    /\ wElapsed <= RecordingLimit
    /\ UNCHANGED <<lastCmd, exitCode, orchVars>>
    /\ wElapsed' = wElapsed + TickSec
    /\ UNCHANGED <<state, dataOutput, worker, workDone, decVars, recVars, mutex,
                   loggerVars, cbPc, ctlPc, tElapsed, nUnjoined>>

\* ----------------------------------------------------- the Decoding worker

\* the worker of the Decoding case: findKeyPresses returns ok
DecDetect(ok) ==
    /\ worker.kind = "dec"
    /\ worker.pc = "detect"
    /\ UNCHANGED <<lastCmd, exitCode, orchVars>>
    /\ worker' = [worker EXCEPT !.pc = IF ok THEN "similarity" ELSE "exited"]
    /\ UNCHANGED <<state, dataOutput, workDone, decVars, recVars, mutex,
                   loggerVars, cbPc, ctlPc, timeVars, nUnjoined>>

\* calculateSimilartyMap returns ok
DecSimilarity(ok) ==
    /\ worker.kind = "dec"
    /\ worker.pc = "similarity"
    /\ UNCHANGED <<lastCmd, exitCode, orchVars>>
    /\ worker' = [worker EXCEPT !.pc = IF ok THEN "minmax" ELSE "exited"]
    /\ UNCHANGED <<state, dataOutput, workDone, decVars, recVars, mutex,
                   loggerVars, cbPc, ctlPc, timeVars, nUnjoined>>

\* auto minCC = similarityMap[0][1].cc in the Decoding worker: with fewer than
\* two keypresses in waveformInput the read is out of range, and the worker
\* goes on with whatever was read or the process is killed
DecMinMaxOutcomes ==
    IF Detect(waveformInput) >= 2 THEN {"search"} ELSE {"search", "crashed"}

\* the print of the similarity map and its min/max; a killed process runs no
\* thread any more
DecMinMax ==
    /\ worker.kind = "dec"
    /\ worker.pc = "minmax"
    /\ UNCHANGED <<lastCmd, exitCode, orchVars>>
    /\ \E pc \in DecMinMaxOutcomes :
         /\ worker' = [worker EXCEPT !.pc = pc]
         /\ ctlPc' = (IF pc = "crashed" THEN "exited" ELSE ctlPc)
    /\ UNCHANGED <<state, dataOutput, workDone, decVars, recVars, mutex,
                   loggerVars, cbPc, timeVars, nUnjoined>>

\* clustering, beam search and refinement; then the write of "done" starts
DecSearch ==
    /\ worker.kind = "dec"
    /\ worker.pc = "search"
    /\ UNCHANGED <<lastCmd, exitCode, orchVars>>
    /\ worker' = [worker EXCEPT !.pc = "doneWrite"]
    /\ UNCHANGED <<state, dataOutput, workDone, decVars, recVars, mutex,
                   loggerVars, cbPc, ctlPc, timeVars, nUnjoined>>

\* state.dataOutput = "done" (without the mutex); state.workDone = true
DecDone ==
    /\ worker.kind = "dec"
    /\ worker.pc \in {"doneWrite", "doneWriteRaced"}
    /\ UNCHANGED <<lastCmd, exitCode, orchVars>>
    /\ dataOutput' \in (IF worker.pc = "doneWriteRaced"
                        THEN RacedString(<<"done">>, dataOutput)
                        ELSE {<<"done">>})
    /\ workDone' = TRUE
    /\ worker' = [worker EXCEPT !.pc = "exited"]
    /\ UNCHANGED <<state, decVars, recVars, mutex, loggerVars, cbPc, ctlPc,
                   timeVars, nUnjoined>>

\* ------------------------------------------------------ the audio callback

\* the process has not ended
Alive == ctlPc # "exited"

\* the frames of one batch: nothing, or one sample while the model's buffer
\* has room
Frames == {<<>>} \cup (IF Len(waveformF) < MaxSamples
                       THEN {<<x>> : x \in Samples} ELSE {})

\* cbAudio: lock the mutex and start appending the frames
CallbackBegin ==
    /\ Alive
    /\ cbPc = "idle"
    /\ installed
    /\ pending
    /\ mutex = "free"
    /\ UNCHANGED <<lastCmd, exitCode, orchVars>>
    /\ pending' = FALSE
    /\ mutex' = "callback"
    /\ cbPc' = "append"
    /\ UNCHANGED <<state, dataOutput, worker, workDone, decVars, recVars,
                   installed, ctlPc, timeVars, nUnjoined>>

\* cbAudio: if (nKeysToCapture <= nKeysHave && !doneRecording)
TargetHit == nKeysToCapture <= nKeysHave /\ ~doneRecording

\* cbAudio: the frames are appended, the flags are set, unlock
CallbackEnd(frames) ==
    /\ Alive
    /\ cbPc \in {"append", "appendRaced"}
    /\ UNCHANGED <<lastCmd, exitCode, orchVars>>
    /\ waveformF' = waveformF \o frames
    /\ IF TargetHit
       THEN /\ doneRecording' = TRUE
            /\ UNCHANGED doRecord
       ELSE /\ doRecord' = TRUE
            /\ UNCHANGED doneRecording
    /\ mutex' = "free"
    /\ cbPc' = "idle"
    /\ UNCHANGED <<state, dataOutput, worker, workDone, decVars, nKeysToCapture,
                   nKeysHave, isStarted, waveformFWork, waveformI16, keyPresses,
                   loggerVars, ctlPc, timeVars, nUnjoined>>

\* ------------------------------------------------------- the specification

Control ==
    \/ \E arg \in KeyArgs \cup {NoArg} : SetDataStart(arg)
    \/ SetDataStop
    \/ SetDataUnknown
    \/ GetData
    \/ MainLoopLoading
    \/ MainLoopLoadingJoin
    \/ MainLoopIdle
    \/ MainLoopRecording
    \/ \E fout \in BOOLEAN : MainLoopRecordingJoin(fout)
    \/ MainLoopDecoding
    \/ MainLoopDecodingJoin

Worker ==
    \/ \E ok \in BOOLEAN : LoadWorker(ok)
    \/ RecCheck
    \/ RecCopyBegin
    \/ RecCopyEnd
    \/ RecDetect
    \/ RecPublishBegin
    \/ RecPublishEnd
    \/ \E ok \in BOOLEAN : DecDetect(ok)
    \/ \E ok \in BOOLEAN : DecSimilarity(ok)
    \/ DecMinMax
    \/ DecSearch
    \/ DecDone

Callback ==
    \/ CallbackBegin
    \/ \E frames \in Frames : CallbackEnd(frames)

Next == Control \/ Worker \/ Callback \/ Tick

Spec == Init /\ [][Next]_vars


\* the scheduler runs every thread that can run; the mutex is eventually won by
\* whoever keeps waiting for it; the recording file can eventually be opened.
\* The commands of the UI (setData, getData) are under no obligation.
MainLoop ==
    \/ MainLoopLoading
    \/ MainLoopLoadingJoin
    \/ MainLoopIdle
    \/ MainLoopRecording
    \/ \E fout \in BOOLEAN : MainLoopRecordingJoin(fout)
    \/ MainLoopDecoding
    \/ MainLoopDecodingJoin

Fairness ==
    /\ WF_vars(MainLoop)
    /\ SF_vars(MainLoopRecordingJoin(TRUE))
    /\ SF_vars(Worker)
    /\ SF_vars(Callback)
    /\ WF_vars(Tick)

FairSpec == Init /\ [][Next]_vars /\ Fairness

\* ------------------------------------------------------- the orchestrator
\* The pipeline that main of the batch driver (src/keytap3.cpp) and the
\* Decoding worker of the live variant run: detection, similarity, clustering,
\* beam search.  It works on its own locals; DecSearch above is the whole of
\* it as one step of the worker.

\* most keypresses the detector finds in a run of the orchestrator
MaxKeys == 2
\* most clusterings the clusterer returns in a run, over all its calls
MaxPool == 2
\* largest score a search gives a clustering
MaxScore == 2
\* largest keypress count the beam width is computed for
MaxCount == 310

Scores == 1..MaxScore

Max(a, b) == IF a >= b THEN a ELSE b
Min(a, b) == IF a <= b THEN a ELSE b

\* the live application as the orchestrator finds it: absent for the batch
\* driver; in Decoding with the worker just started for the live variant
\* (the worker's position is then stage)
OrchLive ==
    /\ state = (IF driver = "app" THEN "Decoding" ELSE "Loading")
    /\ dataOutput = (IF driver = "app" THEN <<"decoding">> ELSE <<>>)
    /\ worker = (IF driver = "app" THEN [kind |-> "dec", pc |-> "detect"] ELSE NoWorker)
    /\ workDone = FALSE
    /\ freqMap6 = (driver = "app")
    /\ waveformInput = <<>>
    /\ nKeysToCapture = 0
    /\ nKeysHave = 0
    /\ isStarted = (driver = "app")
    /\ doRecord = FALSE
    /\ doneRecording = (driver = "app")
    /\ waveformF = <<>>
    /\ waveformFWork = <<>>
    /\ waveformI16 = <<>>
    /\ keyPresses = 0
    /\ mutex = "free"
    /\ installed = FALSE
    /\ pending = FALSE
    /\ cbPc = "idle"
    /\ ctlPc = "ready"
    /\ wElapsed = 0
    /\ tElapsed = 0
    /\ nUnjoined = (IF driver = "app" THEN 1 ELSE 0)
    /\ lastCmd = (IF driver = "app" THEN "start" ELSE "none")

\* the locals of the orchestrator before it has run
OrchLocals ==
    /\ ran = <<>>
    /\ failed = "none"
    /\ nDetected = 0
    /\ maxClusters = 0
    /\ nHypothesesToKeep = 0
    /\ processor = 0
    /\ nIter = 0
    /\ clusterings = <<>>
    /\ hint = <<>>
    /\ idx = 0
    /\ calls = <<>>
    /\ printed = <<>>
    /\ searches = <<>>

\* main of the batch driver is entered, or the Decoding worker is started
OrchInit ==
    /\ driver \in {"batch", "app"}
    /\ stage = (IF driver = "batch" THEN "args" ELSE "detect")
    /\ exitCode = 0
    /\ OrchLocals
    /\ OrchLive

clusterVars == <<maxClusters, nHypothesesToKeep, processor, nIter, clusterings, calls>>
searchVars == <<hint, idx, printed, searches>>
orchLiveVars == <<state, worker, freqMap6, waveformInput, recVars, mutex,
                  loggerVars, cbPc, ctlPc, timeVars, nUnjoined, lastCmd>>

\* `return code` of main
Return(code) ==
    /\ stage' = "returned"
    /\ exitCode' = code

\* a stage returned false: main returns the stage's code, the worker returns
StageFailed(st, code) ==
    /\ failed' = st
    /\ stage' = "returned"
    /\ exitCode' = (IF driver = "batch" THEN code ELSE exitCode)

\* batch: if (argc < 3) return -1
BatchArgs(argc) ==
    /\ driver = "batch"
    /\ stage = "args"
    /\ ran' = Append(ran, "args")
    /\ IF argc < 3
       THEN StageFailed("args", -1)
       ELSE /\ stage' = "load"
            /\ UNCHANGED <<failed, exitCode>>
    /\ UNCHANGED <<driver, nDetected, clusterVars, searchVars, dataOutput,
                   workDone, orchLiveVars>>

\* batch: readFromFile returns ok
BatchLoad(ok) ==
    /\ driver = "batch"
    /\ stage = "load"
    /\ ran' = Append(ran, "load")
    /\ IF ok
       THEN /\ stage' = "filter"
            /\ UNCHANGED <<failed, exitCode>>
       ELSE StageFailed("load", -1)
    /\ UNCHANGED <<driver, nDetected, clusterVars, searchVars, dataOutput,
                   workDone, orchLiveVars>>

\* batch: ::filter
BatchFilter ==
    /\ driver = "batch"
    /\ stage = "filter"
    /\ ran' = Append(ran, "filter")
    /\ stage' = "convert"
    /\ UNCHANGED <<driver, failed, exitCode, nDetected, clusterVars, searchVars,
                   dataOutput, workDone, orchLiveVars>>

\* batch: convert returns ok
BatchConvert(ok) ==
    /\ driver = "batch"
    /\ stage = "convert"
    /\ ran' = Append(ran, "convert")
    /\ IF ok
       THEN /\ stage' = "detect"
            /\ UNCHANGED <<failed, exitCode>>
       ELSE StageFailed("convert", -4)
    /\ UNCHANGED <<driver, nDetected, clusterVars, searchVars, dataOutput,
                   workDone, orchLiveVars>>

\* findKeyPresses returns ok with found keypresses; n = keyPresses.size()
FindKeyPresses(ok, found) ==
    /\ stage = "detect"
    /\ ran' = Append(ran, "detect")
    /\ IF ok
       THEN /\ nDetected' = found
            /\ stage' = "similarity"
            /\ UNCHANGED <<failed, exitCode>>
       ELSE /\ StageFailed("detect", -2)
            /\ UNCHANGED nDetected
    /\ UNCHANGED <<driver, clusterVars, searchVars, dataOutput, workDone,
                   orchLiveVars>>

\* calculateSimilartyMap returns ok; the map is nDetected x nDetected
CalculateSimilartyMap(ok) ==
    /\ stage = "similarity"
    /\ ran' = Append(ran, "similarity")
    /\ IF ok
       THEN /\ stage' = "minmax"
            /\ UNCHANGED <<failed, exitCode>>
       ELSE StageFailed("similarity", -3)
    /\ UNCHANGED <<driver, nDetected, clusterVars, searchVars, dataOutput,
                   workDone, orchLiveVars>>

MutAfterSimilarity == "params"

\* the stage after the similarity block: the batch driver loads the n-gram
\* table here, the live variant has loaded it in the Loading state
AfterSimilarity == IF driver = "batch" THEN "ngram" ELSE "params"

\* auto minCC = similarityMap[0][1].cc: the entry exists when the map has two
\* rows; with fewer the read is out of range, and the process goes on with
\* whatever was read or is killed
MinMaxOutcomes == IF nDetected >= 2 THEN {AfterSimilarity} ELSE {AfterSimilarity, "crashed"}

\* the print of the ncc x ncc block and the min/max of the similarity map
ReadMinMax ==
    /\ stage = "minmax"
    /\ stage' \in MinMaxOutcomes
    /\ UNCHANGED <<driver, ran, failed, exitCode, nDetected, clusterVars,
                   searchVars, dataOutput, workDone, orchLiveVars>>

\* batch: Cipher::loadFreqMapBinary returns ok
BatchLoadFreqMap(ok) ==
    /\ driver = "batch"
    /\ stage = "ngram"
    /\ ran' = Append(ran, "ngram")
    /\ IF ok
       THEN /\ stage' = "params"
            /\ UNCHANGED <<failed, exitCode>>
       ELSE StageFailed("ngram", -5)
    /\ UNCHANGED <<driver, nDetected, clusterVars, searchVars, dataOutput,
                   workDone, orchLiveVars>>

MutBeamWidth(count) == Max(100, 2100 - 10 * Min(100, Max(0, count - 100)))

\* std::max(100, 2100 - 10*std::min(200, std::max(0, ((int) keyPresses.size() - 100))))
BeamWidth(count) == Max(100, 2100 - 10 * Min(200, Max(0, count - 100)))

\* params.maxClusters = 29; nHypothesesToKeep; processor.init(params, ...)
SetParams ==
    /\ stage = "params"
    /\ ran' = Append(ran, "cluster")
    /\ maxClusters' = 29
    /\ nHypothesesToKeep' = BeamWidth(nDetected)
    /\ processor' = 29
    /\ nIter' = 0
    /\ clusterings' = <<>>
    /\ stage' = "cluster"
    /\ UNCHANGED <<driver, failed, exitCode, nDetected, calls, searchVars,
                   dataOutput, workDone, orchLiveVars>>

MutNextMaxClusters(it) == 29 + 4 * it

\* params.maxClusters = 29 + 4*(nIter + 1)
NextMaxClusters(it) == 29 + 4 * (it + 1)

\* what getClusterings(params, 32) returns in call number it: count clusterings
Returned(it, count) ==
    [j \in 1..count |-> [call |-> it, rank |-> j, p |-> 0, nBeam |-> 0, nRefine |-> 0]]

\* one iteration of the clustering loop: getClusterings, push_back of each
\* clustering returned, the next maxClusters, processor.init
GetClusterings(count) ==
    /\ stage = "cluster"
    /\ nIter < 16
    /\ count <= 32
    /\ Len(clusterings) + count <= MaxPool
    /\ calls' = Append(calls, [maxClusters |-> maxClusters,
                               processor |-> processor,
                               returned |-> Returned(nIter, count)])
    /\ clusterings' = clusterings \o Returned(nIter, count)
    /\ maxClusters' = NextMaxClusters(nIter)
    /\ processor' = NextMaxClusters(nIter)
    /\ nIter' = nIter + 1
    /\ UNCHANGED <<driver, stage, ran, failed, exitCode, nDetected,
                   nHypothesesToKeep, searchVars, dataOutput, workDone,
                   orchLiveVars>>

MutHintInit(count) == [j \in 1..count |-> 0]

\* params.hint.clear(); params.hint.resize(n, -1)
HintInit(count) == [j \in 1..count |-> -1]

\* the clustering loop has ended; the hint is set and the beam search loop
\* begins
SetHint ==
    /\ stage = "cluster"
    /\ nIter >= 16
    /\ ran' = Append(ran, "beam")
    /\ hint' = HintInit(nDetected)
    /\ idx' = 1
    /\ stage' = "beam"
    /\ UNCHANGED <<driver, failed, exitCode, nDetected, clusterVars, printed,
                   searches, dataOutput, workDone, orchLiveVars>>

\* Cipher::beamSearch(params, freqMap6, clusterings[i]) scores the clustering
BeamSearch(score) ==
    /\ stage = "beam"
    /\ idx <= Len(clusterings)
    /\ clusterings' = [clusterings EXCEPT ![idx].p = score, ![idx].nBeam = @ + 1]
    /\ searches' = Append(searches, [fn |-> "beamSearch", hint |-> hint])
    /\ stage' = "print"
    /\ UNCHANGED <<driver, ran, failed, exitCode, nDetected, maxClusters,
                   nHypothesesToKeep, processor, nIter, calls, hint, idx,
                   printed, dataOutput, workDone, orchLiveVars>>

\* printf of p and pClusters, Cipher::printDecoded
PrintDecoded ==
    /\ stage = "print"
    /\ printed' = Append(printed, [call |-> clusterings[idx].call,
                                   rank |-> clusterings[idx].rank,
                                   p |-> clusterings[idx].p,
                                   refined |-> clusterings[idx].nRefine > 0])
    /\ stage' = "refine"
    /\ UNCHANGED <<driver, ran, failed, exitCode, nDetected, clusterVars, hint,
                   idx, searches, dataOutput, workDone, orchLiveVars>>

\* Cipher::refineNearby(params, freqMap6, clusterings[i]) accepts improvements
\* only; ++i
RefineNearby(score) ==
    /\ stage = "refine"
    /\ score >= clusterings[idx].p
    /\ clusterings' = [clusterings EXCEPT ![idx].p = score, ![idx].nRefine = @ + 1]
    /\ searches' = Append(searches, [fn |-> "refineNearby", hint |-> hint])
    /\ idx' = idx + 1
    /\ stage' = "beam"
    /\ UNCHANGED <<driver, ran, failed, exitCode, nDetected, maxClusters,
                   nHypothesesToKeep, processor, nIter, calls, hint, printed,
                   dataOutput, workDone, orchLiveVars>>

\* the for loop has ended: break; main returns 0, the worker writes "done",
\* sets workDone and ends
Finish ==
    /\ stage = "beam"
    /\ idx > Len(clusterings)
    /\ stage' = "returned"
    /\ IF driver = "batch"
       THEN UNCHANGED <<dataOutput, workDone>>
       ELSE /\ dataOutput' = <<"done">>
            /\ workDone' = TRUE
    /\ UNCHANGED <<driver, ran, failed, exitCode, nDetected, clusterVars,
                   searchVars, orchLiveVars>>

OrchNext ==
    \/ \E argc \in 2..3 : BatchArgs(argc)
    \/ \E ok \in BOOLEAN : BatchLoad(ok)
    \/ BatchFilter
    \/ \E ok \in BOOLEAN : BatchConvert(ok)
    \/ \E ok \in BOOLEAN, found \in 0..MaxKeys : FindKeyPresses(ok, found)
    \/ \E ok \in BOOLEAN : CalculateSimilartyMap(ok)
    \/ ReadMinMax
    \/ \E ok \in BOOLEAN : BatchLoadFreqMap(ok)
    \/ SetParams
    \/ \E count \in 0..MaxPool : GetClusterings(count)
    \/ SetHint
    \/ \E score \in Scores : BeamSearch(score)
    \/ PrintDecoded
    \/ \E score \in Scores : RefineNearby(score)
    \/ Finish

\* a run of the batch driver, or of the Decoding worker
OrchSpec == OrchInit /\ [][OrchNext]_vars

\* the orchestrator at the set-up of its parameters, for any keypress count
WidthInit ==
    /\ driver \in {"batch", "app"}
    /\ stage = "params"
    /\ exitCode = 0
    /\ ran = IF driver = "batch"
             THEN <<"args", "load", "filter", "convert", "detect", "similarity", "ngram">>
             ELSE <<"detect", "similarity">>
    /\ failed = "none"
    /\ nDetected \in 0..MaxCount
    /\ maxClusters = 0
    /\ nHypothesesToKeep = 0
    /\ processor = 0
    /\ nIter = 0
    /\ clusterings = <<>>
    /\ hint = <<>>
    /\ idx = 0
    /\ calls = <<>>
    /\ printed = <<>>
    /\ searches = <<>>
    /\ OrchLive

WidthNext == SetParams

WidthSpec == WidthInit /\ [][WidthNext]_vars

\* ------------------------------------------------------------------ claims

StartStep == \E arg \in KeyArgs \cup {NoArg} : SetDataStart(arg)

\* C1: a `start` command acts only in Idle, where the state becomes
\* Recording; received in Loading, Recording or Decoding it leaves the state
\* and nKeysToCapture as they are.
C1_StartOnlyInIdle ==
    [][StartStep =>
         IF state = "Idle"
         THEN state' = "Recording"
         ELSE state' = state /\ nKeysToCapture' = nKeysToCapture]_vars

\* a `start` was received while the n-gram table was being loaded
C1_Witness ==
    /\ lastCmd = "start"
    /\ state = "Loading"
    /\ worker.kind = "load"

\* C2: every change of state is Loading->Idle, Idle->Recording,
\* Recording->Decoding, Decoding->Idle, or the change to Idle of a `stop`;
\* Idle is left only by a `start`, Decoding is entered only from Recording.
C2_StateSteps ==
    [][state' # state =>
         \/ state = "Loading" /\ state' = "Idle"
         \/ state = "Idle" /\ state' = "Recording" /\ StartStep
         \/ state = "Recording" /\ state' = "Decoding"
         \/ state = "Decoding" /\ state' = "Idle"
         \/ state' = "Idle" /\ SetDataStop]_vars

\* a session ran from Loading through Recording and Decoding back to Idle
C2_Witness ==
    /\ state = "Idle"
    /\ dataOutput = <<"done">>
    /\ lastCmd = "start"
    /\ worker = NoWorker

\* the worker that belongs to a state
WorkerOf(st) ==
    CASE st = "Loading" -> "load"
      [] st = "Recording" -> "rec"
      [] st = "Decoding" -> "dec"
      [] OTHER -> "none"

\* C3: the state is never changed away from Loading, Recording or Decoding
\* while the worker started for that state runs: at such a change that worker
\* has completed and is joined by the step.
C3_NoChangeWhileWorkerRuns ==
    [][(state \in {"Loading", "Recording", "Decoding"} /\ state' # state
          /\ worker.kind = WorkerOf(state)) =>
         /\ worker.pc = "exited"
         /\ worker' = NoWorker]_vars

\* C4: at most one worker thread exists: no thread is started while an
\* earlier one is unjoined.
C4_AtMostOneWorker == nUnjoined <= 1

\* after `stop` in Loading and `start`, the Recording case finds the Loading
\* worker unjoined and starts no second thread
C4_Witness ==
    /\ state = "Recording"
    /\ worker.kind = "load"
    /\ nUnjoined = 1

\* C5: doneRecording becomes true only in the callback with
\* nKeysToCapture <= nKeysHave, or in the worker with tElapsed over the limit;
\* Recording is left for Decoding only with doneRecording true.
C5_DoneRecordingCauses ==
    [][/\ (~doneRecording /\ doneRecording') =>
            \/ (\E frames \in Frames : CallbackEnd(frames)) /\ nKeysToCapture <= nKeysHave
            \/ RecPublishEnd /\ tElapsed > RecordingLimit
       /\ (state = "Recording" /\ state' = "Decoding") => doneRecording]_vars

\* Decoding was entered on the recording limit, with fewer keys than asked for
C5_Witness ==
    /\ state = "Decoding"
    /\ doneRecording
    /\ nKeysHave < nKeysToCapture


\* C6: every entry into Recording leads to Decoding unless a `stop` intervenes
\* (Recording is left only for Decoding, or for Idle by a `stop`).
C6_RecordingLeadsToDecoding == (state = "Recording") ~> (state # "Recording")

\* C7: every access to dataOutput is made under the mutex, and none overlaps
\* an access by another thread.
C7_DataOutputUnderMutex ==
    /\ WorkerInD => mutex = "worker"
    /\ worker.pc \notin {"pubWriteRaced", "doneWriteRaced"}

\* C8: no access to waveformF overlaps an access by another thread.
C8_WaveformFExclusive ==
    /\ worker.pc # "copyRaced"
    /\ cbPc # "appendRaced"

\* C9: every snapshot is a prefix of the buffer it was copied from, and within
\* a session (between two `start` commands) the buffer only grows: so each
\* snapshot is a prefix of every later one and of the waveform saved.
C9_SnapshotIsPrefix ==
    [][/\ RecCopyEnd => IsPrefix(waveformFWork', waveformF')
       /\ IsPrefix(waveformF, waveformF') \/ StartStep]_vars

IsRecordingMsg(d) == Len(d) > 0 /\ d[1] = "recording"

\* C10: `loading` is written in the Loading state, `loaded` at Loading->Idle,
\* a recording message while the state is Recording, `decoding` at
\* Recording->Decoding, `done` by the decoding worker while the state is
\* Decoding; dataOutput changes to nothing else but the empty string.
C10_MessagesFollowState ==
    [][dataOutput' # dataOutput =>
         CASE dataOutput' = <<>> -> TRUE
           [] dataOutput' = <<"loading">> -> state = "Loading"
           [] dataOutput' = <<"loaded">> -> state = "Loading" /\ state' = "Idle"
           [] IsRecordingMsg(dataOutput') -> state = "Recording"
           [] dataOutput' = <<"decoding">> -> state = "Recording" /\ state' = "Decoding"
           [] dataOutput' = <<"done">> -> state = "Decoding" /\ worker.kind = "dec"
           [] OTHER -> FALSE]_vars

\* StateRecording::init returned false in this step: it refused, or
\* audioLogger.install failed
InitFailed == InitRefused \/ ~installed'

\* C11: when StateRecording::init fails in an accepted `start`, the Recording
\* transition is aborted: after the command the state is Idle and dataOutput
\* has been given an error message.
C11_FailedStartAborts ==
    [][(StartStep /\ StartAccepted /\ InitFailed) =>
         /\ state' = "Idle"
         /\ dataOutput' # dataOutput
         /\ dataOutput' # <<>>]_vars

\* the Loading worker has returned without setting workDone
LoadFailed == worker.kind = "load" /\ worker.pc = "exited" /\ ~workDone

\* C12: a failed load of the n-gram table is fatal: once the Loading worker
\* has failed, the process ends with code -5 instead of staying in Loading.
C12_LoadFailureIsFatal ==
    (state = "Loading" /\ LoadFailed) ~> (ctlPc = "exited" /\ exitCode = -5)

\* the stages of the batch driver, in the order of the specification
StageOrder ==
    <<"args", "load", "filter", "convert", "detect", "similarity", "ngram",
      "cluster", "beam">>

\* the exit code of a failing stage of the batch driver
CodeOf(st) ==
    CASE st \in {"args", "load"} -> -1
      [] st = "detect" -> -2
      [] st = "similarity" -> -3
      [] st = "convert" -> -4
      [] st = "ngram" -> -5
      [] OTHER -> 0

\* C13: the batch driver runs its stages in the fixed order; a failing stage
\* is the last one run and main returns with that stage's code; main returns
\* 0 only when all nine stages ran and none failed.
C13_BatchStagesAndCodes ==
    driver = "batch" =>
      /\ IsPrefix(ran, StageOrder)
      /\ failed # "none" =>
            /\ stage = "returned"
            /\ exitCode = CodeOf(failed)
            /\ exitCode # 0
            /\ ran[Len(ran)] = failed
      /\ (stage = "returned" /\ failed = "none") =>
            /\ exitCode = 0
            /\ ran = StageOrder
      /\ stage # "returned" => exitCode = 0

\* the n-gram table could not be loaded after every earlier stage succeeded
C13_Witness ==
    /\ driver = "batch"
    /\ stage = "returned"
    /\ failed = "ngram"
    /\ exitCode = -5
    /\ Len(ran) = 7

\* the identities of a list of clusterings
Ids(cs) == [j \in DOMAIN cs |-> <<cs[j].call, cs[j].rank>>]

\* everything the first count calls of getClusterings returned, in call order
RECURSIVE Pooled(_)
Pooled(count) ==
    IF count = 0 THEN <<>>
    ELSE Pooled(count - 1) \o Ids(calls[count].returned)

\* C14: the clusterer is called 16 times, call k (from 0) with
\* maxClusters = 29 + 4k on a processor initialised with the same value, never
\* with more than 89; each call returns at most 32 clusterings and the pool is
\* the concatenation, in call order, of what the calls returned.
C14_SixteenGrowingCalls ==
    /\ Len(calls) <= 16
    /\ \A k \in 1..Len(calls) :
          /\ calls[k].maxClusters = 29 + 4 * (k - 1)
          /\ calls[k].processor = calls[k].maxClusters
          /\ calls[k].maxClusters <= 89
          /\ Len(calls[k].returned) <= 32
    /\ Ids(clusterings) = Pooled(Len(calls))
    /\ stage \in {"beam", "print", "refine"} => Len(calls) = 16
    /\ (stage = "returned" /\ failed = "none") => Len(calls) = 16

\* the 16 calls are over and two of them returned a clustering each
C14_Witness ==
    /\ stage = "beam"
    /\ Len(calls) = 16
    /\ Len(clusterings) = 2
    /\ clusterings[1].call < clusterings[2].call
    /\ calls[16].maxClusters = 89

\* C15: the beam width is 2100 up to 100 keypresses, 10 less for every
\* keypress from 100 to 300, 100 from 300 on, and always within 100..2100.
C15_BeamWidth ==
    stage = "cluster" =>
      /\ nHypothesesToKeep \in 100..2100
      /\ nDetected <= 100 => nHypothesesToKeep = 2100
      /\ (nDetected >= 100 /\ nDetected <= 300) =>
            nHypothesesToKeep = 2100 - 10 * (nDetected - 100)
      /\ nDetected >= 300 => nHypothesesToKeep = 100

\* the width of a recording in the middle of the slope
C15_Witness ==
    /\ stage = "cluster"
    /\ nDetected = 250
    /\ nHypothesesToKeep = 600

\* C16: the result printed for a clustering is the one obtained after
\* refineNearby has been applied to it.
C16_PrintedAfterRefine ==
    \A k \in 1..Len(printed) : printed[k].refined

\* C17: the results are printed in the order of their score p, best first.
C17_PrintedSortedByP ==
    \A a, b \in 1..Len(printed) : a < b => printed[a].p >= printed[b].p

\* C18: when the batch driver detects no keypresses it runs no stage after
\* the detection and returns 0.
C18_NoKeysSkipsDownstream ==
    (driver = "batch" /\ nDetected = 0 /\ Len(ran) >= 5 /\ failed = "none") =>
      /\ ran = SubSeq(StageOrder, 1, 5)
      /\ stage = "returned" => exitCode = 0
      /\ stage # "crashed"

\* C19: at every call of beamSearch and refineNearby the hint has n entries,
\* all none (-1); every pooled clustering is beam-searched and refined once.
C19_HintAllNoneSinglePass ==
    /\ \A k \in 1..Len(searches) :
          /\ Len(searches[k].hint) = nDetected
          /\ \A j \in 1..nDetected : searches[k].hint[j] = -1
    /\ \A j \in 1..Len(clusterings) :
          /\ clusterings[j].nBeam <= 1
          /\ clusterings[j].nRefine <= 1
          /\ (stage = "returned" /\ failed = "none") =>
                (clusterings[j].nBeam = 1 /\ clusterings[j].nRefine = 1)

\* a run over two keypresses and two clusterings has ended
C19_Witness ==
    /\ stage = "returned"
    /\ failed = "none"
    /\ nDetected = 2
    /\ Len(clusterings) = 2
    /\ Len(searches) = 4

\* the Decoding worker is at a step that reads freqMap6
DecReadsFreqMap == worker.kind = "dec" /\ worker.pc = "search"

\* C20: the Decoding state is entered, and the Decoding worker reads
\* freqMap6, only after the Loading worker has loaded it successfully.
C20_FreqMapLoadedBeforeUse ==
    /\ state = "Decoding" => freqMap6
    /\ DecReadsFreqMap => freqMap6

\* C21: every entry into Decoding ends with the worker joined and the state
\* back to Idle, also when detection or similarity fails in the worker: the
\* state machine is never left in Decoding.
C21_DecodingLeadsToIdle == (state = "Decoding") ~> (state = "Idle")

\* C22: the recording worker holds the mutex exactly while it copies the
\* snapshot and while it updates nKeysHave, dataOutput and doneRecording, never
\* while it filters, converts or detects; the callback holds it exactly while
\* it appends and sets its flags.
C22_ShortCriticalSections ==
    /\ mutex = "worker" <=>
          /\ worker.kind = "rec"
          /\ worker.pc \in {"copy", "copyRaced", "pubWrite", "pubWriteRaced", "pubNoWrite"}
    /\ mutex = "callback" <=> cbPc \in {"append", "appendRaced"}
    /\ (worker.kind = "rec" /\ worker.pc = "detect") => mutex # "worker"

\* the callback appends while the worker filters, converts and detects
C22_Witness ==
    /\ worker.kind = "rec"
    /\ worker.pc = "detect"
    /\ cbPc = "append"
    /\ mutex = "callback"

\* C23: the entry [0][1] of the similarity map is read only when the map has
\* it, that is with at least two keypresses, and no driver is killed by the
\* read.
C23_MinMaxReadInRange ==
    /\ stage = "minmax" => nDetected >= 2
    /\ stage # "crashed"

\* C24: within a session nKeysHave only rises, and only in the worker's
\* publication; a recording message is begun only with nKeysHave just raised
\* and is written by the worker with the count nKeysHave; nKeysHave is reset
\* to 0 only by a StateRecording::init that succeeds.
C24_CountResetBySuccessfulInit ==
    [][/\ nKeysHave' # nKeysHave =>
            \/ RecPublishBegin /\ nKeysHave' > nKeysHave
            \/ StartStep /\ StartAccepted /\ ~InitFailed /\ nKeysHave' = 0
       /\ (RecPublishBegin /\ worker'.pc = "pubWrite") => nKeysHave' > nKeysHave
       /\ (IsRecordingMsg(dataOutput') /\ dataOutput' # dataOutput) =>
            /\ RecPublishEnd
            /\ worker.pc \in {"pubWrite", "pubWriteRaced"}
            /\ dataOutput'[2] = nKeysHave]_vars

\* C25: at the Recording->Decoding step the int16 waveform handed to the
\* decoder is the conversion of the whole float buffer that is saved: no
\* sample the callback appended before the step is missing from it.
C25_DecoderGetsWholeRecording ==
    [][(state = "Recording" /\ state' = "Decoding") =>
         waveformInput' = ToI16(waveformF)]_vars

\* the state is Idle by the join of Decoding: a session was started, and no
\* `stop` has come since the `start` received last
Completed == state = "Idle" /\ lastCmd = "start" /\ isStarted

=============================================================================
